---- MODULE Spec2Model ----
(***************************************************************************)
(* Model of main.py: the in-memory stores USER_CREDENTIALS and             *)
(* VECTOR_STORE and the request handlers that read and write them          *)
(* (oauth2callback, list_docs, fetch_doc, ingest_docs, chat_query).        *)
(*                                                                         *)
(* Strings are kept exactly, as run-length encoded character sequences:    *)
(* a text is a sequence of runs <<c, n>> (n >= 1 copies of character c)    *)
(* in which adjacent runs carry different characters, so that two texts    *)
(* are equal as values iff they are equal as strings.                      *)
(***************************************************************************)
EXTENDS Integers, Sequences, FiniteSets, TLC

\* Python's None.  It is represented by the empty value, which is also the
\* representation of "", [] and {}: the four are exactly Python's falsy
\* values among those the handlers test, and the code never needs to tell
\* them apart (a test "x is None" in the model is only made where the other
\* three cannot occur or are treated alike).
None == <<>>

Falsy(x) == x = <<>>

\* dict.get(key, default) and d[key] = value
DictGet(d, key, default) == IF key \in DOMAIN d THEN d[key] ELSE default

DictSet(d, key, value) ==
    [x \in DOMAIN d \cup {key} |-> IF x = key THEN value ELSE d[x]]

\* list[i] for a Python list held as a 1-based sequence: negative indices
\* count from the end; anything outside -N..N-1 raises IndexError.
PyIndexValid(list, i) == -Len(list) <= i /\ i < Len(list)

PyIndex(list, i) == IF i >= 0 THEN list[i + 1] ELSE list[Len(list) + i + 1]

-----------------------------------------------------------------------------
(* Strings *)

Str(c, n) == << <<c, n>> >>

RECURSIVE TextLen(_)
TextLen(t) == IF t = <<>> THEN 0 ELSE Head(t)[2] + TextLen(Tail(t))

Cat(s, t) ==
    IF s = <<>> THEN t
    ELSE IF t = <<>> THEN s
    ELSE IF s[Len(s)][1] = t[1][1]
         THEN SubSeq(s, 1, Len(s) - 1)
                \o << <<t[1][1], s[Len(s)][2] + t[1][2]>> >> \o Tail(t)
         ELSE s \o t

RECURSIVE StrJoin(_, _)
StrJoin(sep, parts) ==
    IF parts = <<>> THEN <<>>
    ELSE IF Len(parts) = 1 THEN parts[1]
    ELSE Cat(Cat(parts[1], sep), StrJoin(sep, Tail(parts)))

RECURSIVE CountChar(_, _)
CountChar(t, c) ==
    IF t = <<>> THEN 0
    ELSE (IF Head(t)[1] = c THEN Head(t)[2] ELSE 0) + CountChar(Tail(t), c)

Whitespace == {" ", "\n"}

RECURSIVE LStrip(_)
LStrip(t) ==
    IF t = <<>> THEN <<>>
    ELSE IF Head(t)[1] \in Whitespace THEN LStrip(Tail(t)) ELSE t

RECURSIVE RStrip(_)
RStrip(t) ==
    IF t = <<>> THEN <<>>
    ELSE IF t[Len(t)][1] \in Whitespace THEN RStrip(SubSeq(t, 1, Len(t) - 1))
    ELSE t

Strip(t) == RStrip(LStrip(t))

\* re.split(separator, text) for a one-character separator: the pieces
\* between separators, empty pieces included.
RECURSIVE ReSplit(_, _, _)
ReSplit(sepChar, t, cur) ==
    IF t = <<>> THEN <<cur>>
    ELSE IF Head(t)[1] = sepChar
         THEN <<cur>> \o [i \in 1..(Head(t)[2] - 1) |-> <<>>]
                \o ReSplit(sepChar, Tail(t), <<>>)
         ELSE ReSplit(sepChar, Tail(t), cur \o <<Head(t)>>)

-----------------------------------------------------------------------------
(* CharacterTextSplitter(separator="\n", chunk_size=500, chunk_overlap=50) *)

separator == Str("\n", 1)
chunk_size == 500
chunk_overlap == 50

\* _join_docs: join, strip, None when nothing is left.
JoinDocs(docs) ==
    LET text == Strip(StrJoin(separator, docs)) IN
    IF text = <<>> THEN None ELSE text

SepLenIf(cond) == IF cond THEN TextLen(separator) ELSE 0

\* The inner while loop of _merge_splits, popping from the front of
\* current_doc.
RECURSIVE PopFront(_, _, _)
PopFront(current_doc, total, dlen) ==
    IF total > chunk_overlap
       \/ (total + dlen + SepLenIf(Len(current_doc) > 0) > chunk_size
           /\ total > 0)
    THEN PopFront(Tail(current_doc),
                  total - (TextLen(current_doc[1])
                           + SepLenIf(Len(current_doc) > 1)),
                  dlen)
    ELSE [current_doc |-> current_doc, total |-> total]

RECURSIVE MergeSplits(_, _, _, _)
MergeSplits(splits, docs, current_doc, total) ==
    IF splits = <<>>
    THEN LET doc == JoinDocs(current_doc) IN
         IF doc # None THEN Append(docs, doc) ELSE docs
    ELSE
      LET d == Head(splits)
          dlen == TextLen(d)
          over == total + dlen + SepLenIf(Len(current_doc) > 0) > chunk_size
          flush == over /\ Len(current_doc) > 0
          doc == JoinDocs(current_doc)
          docs1 == IF flush /\ doc # None THEN Append(docs, doc) ELSE docs
          popped == IF flush THEN PopFront(current_doc, total, dlen)
                    ELSE [current_doc |-> current_doc, total |-> total]
          cur1 == Append(popped.current_doc, d)
          total1 == popped.total + dlen + SepLenIf(Len(cur1) > 1)
      IN MergeSplits(Tail(splits), docs1, cur1, total1)

split_text(text) ==
    LET splits == SelectSeq(ReSplit("\n", text, <<>>), LAMBDA s : s # <<>>)
    IN MergeSplits(splits, <<>>, <<>>, 0)

-----------------------------------------------------------------------------
(* The Google Docs payload and the text extraction *)

TextRun(content) == [textRun |-> [content |-> content]]
Paragraph(elems) == [paragraph |-> [elements |-> elems]]

\* the inner loop: the textRun contents of one paragraph, in order
RECURSIVE ParagraphRuns(_)
ParagraphRuns(elems) ==
    IF elems = <<>> THEN <<>>
    ELSE LET elem == Head(elems) IN
         (IF "textRun" \in DOMAIN elem /\ "content" \in DOMAIN elem["textRun"]
          THEN <<elem["textRun"]["content"]>> ELSE <<>>)
         \o ParagraphRuns(Tail(elems))

\* the outer loop: text_chunks over the structural elements of the body
RECURSIVE BodyRuns(_)
BodyRuns(content) ==
    IF content = <<>> THEN <<>>
    ELSE LET element == Head(content) IN
         (IF "paragraph" \in DOMAIN element
          THEN ParagraphRuns(DictGet(element["paragraph"], "elements", <<>>))
          ELSE <<>>)
         \o BodyRuns(Tail(content))

\* "".join(text_chunks)
extract_text(gdoc) ==
    StrJoin(<<>>, BodyRuns(DictGet(DictGet(gdoc, "body", <<>>), "content", <<>>)))

-----------------------------------------------------------------------------
(* SentenceTransformer.encode and faiss.IndexFlatL2 *)

\* A deterministic stand-in for the sentence encoder: a vector computed from
\* the text (its character counts), one per input text, in input order.
Embed(text) == <<CountChar(text, "a"), CountChar(text, "b")>>

encode(texts) == [i \in 1..Len(texts) |-> Embed(texts[i])]

\* numpy shape of the encoder's output: np.asarray([]) for an empty batch is
\* one-dimensional, so shape[1] does not exist.
Shape(embeddings) ==
    IF Len(embeddings) = 0 THEN <<0>>
    ELSE <<Len(embeddings), Len(embeddings[1])>>

IndexFlatL2(dim) == [d |-> dim, vectors |-> <<>>]

IndexAdd(index, embeddings) ==
    [index EXCEPT !.vectors = index.vectors \o embeddings]

ntotal(index) == Len(index.vectors)

RECURSIVE SumSq(_, _)
SumSq(x, y) ==
    IF x = <<>> THEN 0
    ELSE (Head(x) - Head(y)) * (Head(x) - Head(y)) + SumSq(Tail(x), Tail(y))

\* squared L2 distance from the query to the vector at 0-based position p
Dist(index, q, p) == SumSq(index.vectors[p + 1], q)

Min(a, b) == IF a < b THEN a ELSE b

\* index.search(q, k): the label rows I[0] the search may return.  The first
\* min(k, ntotal) labels are the nearest positions, ascending by distance;
\* the row is padded with -1 when the index holds fewer than k vectors.
\* The order among equidistant vectors is left open.
Search(index, q, kn) ==
    LET N == ntotal(index)
        m == Min(kn, N)
    IN { I \in [1..kn -> -1..(N - 1)] :
           /\ \A i \in 1..m : I[i] >= 0
           /\ \A i \in (m + 1)..kn : I[i] = -1
           /\ \A i, j \in 1..m : i < j =>
                  /\ I[i] # I[j]
                  /\ Dist(index, q, I[i]) <= Dist(index, q, I[j])
           /\ \A p \in 0..(N - 1) :
                  (\A i \in 1..m : I[i] # p) =>
                      \A i \in 1..m : Dist(index, q, I[i]) <= Dist(index, q, p) }

-----------------------------------------------------------------------------
(* The environment: the remote document store and the requests *)

MaxDocs == 2

Line(c, n) == Str(c, n)

\* d1: "a\n" / "\n" / "b" over two paragraphs, i.e. two lines separated by a
\*     blank line; d2: three lines of 460, 30 and 100 characters;
\* d3: a document with no text run at all; d4 does not exist (the fetch
\*     fails).
DRIVE ==
    [d1 |-> [documentId |-> "d1", title |-> "cat",
             body |-> [content |-> <<
                 [sectionBreak |-> "s"],
                 Paragraph(<<TextRun(Str("a", 1)), TextRun(Str("\n", 1))>>),
                 Paragraph(<<TextRun(Str("\n", 1)), TextRun(Str("b", 1))>>) >>]],
     d2 |-> [documentId |-> "d2", title |-> "long",
             body |-> [content |-> <<
                 Paragraph(<<TextRun(Cat(Line("a", 460), Str("\n", 1)))>>),
                 Paragraph(<<TextRun(Cat(Line("b", 30), Str("\n", 1))),
                             TextRun(Cat(Line("a", 100), Str("\n", 1)))>>) >>]],
     d3 |-> [documentId |-> "d3", title |-> "drawing",
             body |-> [content |-> <<
                 [table |-> "t"],
                 Paragraph(<<[inlineObjectElement |-> "o"],
                             [textRun |-> [textStyle |-> "bold"]]>>),
                 [paragraph |-> [paragraphStyle |-> "p"]] >>]]]

DocIds == {"d1", "d2", "d3", "d4"}

RECURSIVE SeqsUpTo(_, _)
SeqsUpTo(S, n) ==
    IF n = 0 THEN {<<>>}
    ELSE LET shorter == SeqsUpTo(S, n - 1) IN
         shorter \cup {Append(q, x) : q \in {r \in shorter : Len(r) = n - 1}, x \in S}

\* the doc_ids lists of the requests
DocIdLists == SeqsUpTo(DocIds, MaxDocs)

Queries == {Str("a", 1), Str("b", 1)}

Tokens == {"tok1"}

\* the request handlers that may be in progress at once
NumWorkers == 2

Workers == 1..NumWorkers

\* the number of step-by-step handler runs of a behaviour
MaxRequests == 3

\* the doc_ids lists of the step-by-step ingestions: one chunk, three chunks,
\* a failing fetch after a fetch that succeeded, and no text
ThreadDocIdLists == {<<"d1">>, <<"d2", "d1">>, <<"d1", "d4">>, <<"d3">>}

\* What flow.credentials can hold after a successful token exchange.  The
\* refresh token is optional; it is held as a one-element tuple so that it
\* and None are values of one kind.
GrantedCredentials ==
    { [token |-> t, refresh_token |-> r, token_uri |-> "uri",
       client_id |-> "id", client_secret |-> "secret", scopes |-> "SCOPES"]
      : t \in Tokens, r \in {None, <<"refresh">>} }

\* docs_svc.documents().get(documentId=doc_id).execute()
FetchOk(doc_id) == doc_id \in DOMAIN DRIVE

-----------------------------------------------------------------------------
(* State *)

VARIABLES
    USER_CREDENTIALS,   \* dict: user key -> credential fields
    VECTOR_STORE,       \* dict: user key -> [index, texts]
    request,            \* the request served last: handler and arguments
    response,           \* its response (status 500 with "raised": the handler
                        \* let an exception escape)
    frame,              \* the locals of that handler run the properties need
    ingested,           \* history: whether an ingestion has failed, and the
                        \* last ingestion that ran to its end (its doc_ids,
                        \* its chunks and the texts it dropped from the store)
    pc, loc,            \* per worker: position and locals of a handler that
                        \* runs step by step (thread-level interleaving)
    started,            \* the number of such handler runs started
    completed           \* history: the stores such handlers built and committed

vars == <<USER_CREDENTIALS, VECTOR_STORE, request, response, frame, ingested,
          pc, loc, started, completed>>

stepVars == <<pc, loc, started, completed>>

user == "default_user"

-----------------------------------------------------------------------------
(* Handlers, each run from its first line to its return *)

\* (mutant) no early return: credentials are built from whatever is stored
get_credentials_for_user_NoCheck(user_key) ==
    LET info == DictGet(USER_CREDENTIALS, user_key, <<>>) IN
    [token |-> DictGet(info, "token", None),
     refresh_token |-> DictGet(info, "refresh_token", None),
     token_uri |-> DictGet(info, "token_uri", None),
     client_id |-> DictGet(info, "client_id", None),
     client_secret |-> DictGet(info, "client_secret", None),
     scopes |-> DictGet(info, "scopes", None)]

get_credentials_for_user(user_key) ==
    LET info == DictGet(USER_CREDENTIALS, user_key, None) IN
    IF Falsy(info) THEN None
    ELSE [token |-> info["token"],
          refresh_token |-> DictGet(info, "refresh_token", None),
          token_uri |-> info["token_uri"],
          client_id |-> info["client_id"],
          client_secret |-> info["client_secret"],
          scopes |-> info["scopes"]]

Raised(exc) == [status |-> 500, raised |-> exc]

serve_index ==
    /\ request' = [op |-> "serve_index"]
    /\ response' = [status |-> 200, file |-> "index.html"]
    /\ frame' = <<>>
    /\ UNCHANGED <<USER_CREDENTIALS, VECTOR_STORE, ingested, stepVars>>

login ==
    /\ request' = [op |-> "login"]
    /\ response' = [status |-> 307, location |-> "auth_url"]
    /\ frame' = <<>>
    /\ UNCHANGED <<USER_CREDENTIALS, VECTOR_STORE, ingested, stepVars>>

serve_chat ==
    /\ request' = [op |-> "serve_chat"]
    /\ response' = [status |-> 200, file |-> "chat.html"]
    /\ frame' = <<>>
    /\ UNCHANGED <<USER_CREDENTIALS, VECTOR_STORE, ingested, stepVars>>

\* (mutant) a new login also drops the session's store
oauth2callback_ResetStore ==
    /\ request' = [op |-> "oauth2callback"]
    /\ frame' = <<>>
    /\ \/ /\ response' = [status |-> 500, error |-> "token exchange failed"]
          /\ UNCHANGED <<USER_CREDENTIALS, VECTOR_STORE>>
       \/ \E creds \in GrantedCredentials :
          /\ USER_CREDENTIALS' = DictSet(USER_CREDENTIALS, user, creds)
          /\ VECTOR_STORE' = [x \in DOMAIN VECTOR_STORE \ {user} |-> VECTOR_STORE[x]]
          /\ response' = [status |-> 200, body |-> "connected"]
    /\ UNCHANGED <<ingested, stepVars>>

oauth2callback ==
    /\ request' = [op |-> "oauth2callback"]
    /\ frame' = <<>>
    /\ \/ \* flow.fetch_token raises: caught, nothing saved
          /\ response' = [status |-> 500, error |-> "token exchange failed"]
          /\ UNCHANGED USER_CREDENTIALS
       \/ \E creds \in GrantedCredentials :
          /\ USER_CREDENTIALS' = DictSet(USER_CREDENTIALS, user, creds)
          /\ response' = [status |-> 200, body |-> "connected"]
    /\ UNCHANGED <<VECTOR_STORE, ingested, stepVars>>

DriveListing ==
    LET ids == <<"d1", "d2", "d3">> IN
    [i \in 1..Len(ids) |-> [id |-> ids[i], name |-> DRIVE[ids[i]]["title"]]]

list_docs ==
    /\ request' = [op |-> "list_docs"]
    /\ frame' = <<>>
    /\ IF Falsy(get_credentials_for_user(user))
       THEN response' = [status |-> 401, error |-> "not authenticated. visit /login first"]
       ELSE \/ response' = [status |-> 200, documents |-> DriveListing]
            \/ response' = [status |-> 500, error |-> "HttpError"]
    /\ UNCHANGED <<USER_CREDENTIALS, VECTOR_STORE, ingested, stepVars>>

fetch_doc(doc_id) ==
    /\ request' = [op |-> "fetch_doc", doc_id |-> doc_id]
    /\ frame' = <<>>
    /\ IF Falsy(get_credentials_for_user(user))
       THEN response' = [status |-> 401, error |-> "not authenticated"]
       ELSE IF ~FetchOk(doc_id)
       THEN response' = Raised("HttpError")
       ELSE LET doc == DRIVE[doc_id] IN
            response' = [status |-> 200,
                         id |-> DictGet(doc, "documentId", None),
                         title |-> DictGet(doc, "title", None),
                         text |-> extract_text(doc)]
    /\ UNCHANGED <<USER_CREDENTIALS, VECTOR_STORE, ingested, stepVars>>

-----------------------------------------------------------------------------
(* ingest_docs *)

\* the text of one fetched document (the inline extraction of the loop body)
plain_text(doc) ==
    StrJoin(<<>>, BodyRuns(DictGet(DictGet(doc, "body", <<>>), "content", <<>>)))

\* The loop body's result for each document of the store and the chunks of
\* each such text, evaluated once.
DriveText == [d \in DOMAIN DRIVE |-> plain_text(DRIVE[d])]

SplitTable == [t \in {DriveText[d] : d \in DOMAIN DRIVE} |-> split_text(t)]

Split(txt) == IF txt \in DOMAIN SplitTable THEN SplitTable[txt] ELSE split_text(txt)

\* the loop body for a document whose fetch succeeds
FetchOne(doc_id, all_chunks) == Append(all_chunks, DriveText[doc_id])

\* (mutant) a fetch that fails is skipped and the loop goes on
RECURSIVE FetchLoop_SkipFailed(_, _, _)
FetchLoop_SkipFailed(doc_ids, all_chunks, fetched) ==
    IF doc_ids = <<>>
    THEN [raised |-> FALSE, all_chunks |-> all_chunks, fetched |-> fetched]
    ELSE IF ~FetchOk(Head(doc_ids))
    THEN FetchLoop_SkipFailed(Tail(doc_ids), all_chunks, fetched + 1)
    ELSE FetchLoop_SkipFailed(Tail(doc_ids), FetchOne(Head(doc_ids), all_chunks),
                              fetched + 1)

\* The fetch loop over doc_ids.  A fetch that fails raises out of the
\* handler; "fetched" counts the fetches attempted.
RECURSIVE FetchLoop(_, _, _)
FetchLoop(doc_ids, all_chunks, fetched) ==
    IF doc_ids = <<>>
    THEN [raised |-> FALSE, all_chunks |-> all_chunks, fetched |-> fetched]
    ELSE IF ~FetchOk(Head(doc_ids))
    THEN [raised |-> TRUE, all_chunks |-> all_chunks, fetched |-> fetched + 1]
    ELSE FetchLoop(Tail(doc_ids), FetchOne(Head(doc_ids), all_chunks), fetched + 1)

\* (mutant) each document's chunks are put in front of the earlier ones
RECURSIVE ChunkLoop_Prepend(_, _)
ChunkLoop_Prepend(all_chunks, chunks) ==
    IF all_chunks = <<>> THEN chunks
    ELSE ChunkLoop_Prepend(Tail(all_chunks), Split(Head(all_chunks)) \o chunks)

\* chunks.extend(splitter.split_text(txt)) for txt in all_chunks
RECURSIVE ChunkLoop(_, _)
ChunkLoop(all_chunks, chunks) ==
    IF all_chunks = <<>> THEN chunks
    ELSE ChunkLoop(Tail(all_chunks), chunks \o Split(Head(all_chunks)))

\* encode, shape[1], IndexFlatL2(dim), index.add
BuildIndex(chunks) ==
    LET embeddings == encode(chunks)
        shape == Shape(embeddings)
    IN IF Len(shape) < 2
       THEN [raised |-> TRUE]
       ELSE [raised |-> FALSE,
             index |-> IndexAdd(IndexFlatL2(shape[2]), embeddings)]

\* (mutant) the new vectors and chunks are added to the store in place
NewStore_Extend(index, chunks) ==
    IF user \in DOMAIN VECTOR_STORE
    THEN [index |-> IndexAdd(VECTOR_STORE[user].index, index.vectors),
          texts |-> VECTOR_STORE[user].texts \o chunks]
    ELSE [index |-> index, texts |-> chunks]

\* (mutant) the existing entry gets the new index first; its texts are
\* left for a later statement
NewStore_IndexFirst(index, chunks) ==
    IF user \in DOMAIN VECTOR_STORE
    THEN [index |-> index, texts |-> VECTOR_STORE[user].texts]
    ELSE [index |-> index, texts |-> chunks]

\* the value assigned to VECTOR_STORE[user_key]
NewStore(index, chunks) == [index |-> index, texts |-> chunks]

\* history: the texts of the store being replaced that the new store lacks
Dropped(vs, chunks) ==
    LET old == DictGet(DictGet(vs, user, <<>>), "texts", <<>>) IN
    {old[i] : i \in 1..Len(old)} \ {chunks[i] : i \in 1..Len(chunks)}

ingest_docs(doc_ids) ==
    /\ request' = [op |-> "ingest_docs", doc_ids |-> doc_ids]
    /\ UNCHANGED <<USER_CREDENTIALS, stepVars>>
    /\ IF Falsy(get_credentials_for_user(user))
       THEN /\ response' = [status |-> 401, error |-> "not authenticated. visit /login"]
            /\ frame' = [fetched |-> 0]
            /\ ingested' = [ingested EXCEPT !.failed = TRUE]
            /\ UNCHANGED VECTOR_STORE
       ELSE
         LET f == FetchLoop(doc_ids, <<>>, 0) IN
         IF f.raised
         THEN /\ response' = Raised("HttpError")
              /\ frame' = [fetched |-> f.fetched]
              /\ ingested' = [ingested EXCEPT !.failed = TRUE]
              /\ UNCHANGED VECTOR_STORE
         ELSE
           LET chunks == ChunkLoop(f.all_chunks, <<>>)
               b == BuildIndex(chunks)
           IN IF b.raised
              THEN /\ response' = Raised("IndexError")
                   /\ frame' = [fetched |-> f.fetched]
                   /\ ingested' = [ingested EXCEPT !.failed = TRUE]
                   /\ UNCHANGED VECTOR_STORE
              ELSE /\ VECTOR_STORE' = DictSet(VECTOR_STORE, user, NewStore(b.index, chunks))
                   /\ response' = [status |-> 200, message |-> Len(chunks)]
                   /\ frame' = [fetched |-> f.fetched]
                   /\ ingested' = [done |-> TRUE, failed |-> ingested.failed,
                                    doc_ids |-> doc_ids, chunks |-> chunks,
                                    dropped |-> Dropped(VECTOR_STORE, chunks)]

-----------------------------------------------------------------------------
(* chat_query *)

k == 3

ResultSeparator == Cat(Cat(Str("\n", 1), Str("-", 3)), Str("\n", 1))

\* (mutant) a missing store is looked up as an empty one
LookupStore_Default(user_key) ==
    DictGet(VECTOR_STORE, user_key, [index |-> IndexFlatL2(2), texts |-> <<>>])

\* store = VECTOR_STORE.get(user_key)
LookupStore(user_key) == DictGet(VECTOR_STORE, user_key, None)

\* results = [texts[i] for i in I[0]]
MapResults(texts, I) == [i \in 1..Len(I) |-> PyIndex(texts, I[i])]

chat_query(query) ==
    /\ request' = [op |-> "chat_query", query |-> query]
    /\ UNCHANGED <<USER_CREDENTIALS, VECTOR_STORE, ingested, stepVars>>
    /\ LET store == LookupStore(user) IN
       IF Falsy(store)
       THEN /\ response' = [status |-> 400, error |-> "No documents ingested yet. Use /ingest first."]
            /\ frame' = <<>>
       ELSE
         LET index == store["index"]
             texts == store["texts"]
             query_vec == encode(<<query>>)
         IN \E I \in Search(index, query_vec[1], k) :
              IF \E i \in 1..Len(I) : ~PyIndexValid(texts, I[i])
              THEN /\ response' = Raised("IndexError")
                   /\ frame' = [I |-> I, N |-> Len(texts)]
              ELSE /\ response' = [status |-> 200, query |-> query,
                                   response |-> StrJoin(ResultSeparator, MapResults(texts, I))]
                   /\ frame' = [I |-> I, N |-> Len(texts),
                                results |-> MapResults(texts, I)]

-----------------------------------------------------------------------------
(* The server as asyncio runs it: the handlers are coroutines without an   *)
(* await, so each request runs to its return before the next one starts.   *)

Init ==
    /\ USER_CREDENTIALS = <<>>
    /\ VECTOR_STORE = <<>>
    /\ request = [op |-> "startup"]
    /\ response = [status |-> 0]
    /\ frame = <<>>
    /\ ingested = [done |-> FALSE, failed |-> FALSE]
    /\ pc = [w \in Workers |-> "idle"]
    /\ loc = [w \in Workers |-> <<>>]
    /\ started = 0
    /\ completed = {}

Next ==
    \/ serve_index
    \/ login
    \/ oauth2callback
    \/ list_docs
    \/ \E doc_id \in DocIds : fetch_doc(doc_id)
    \/ \E doc_ids \in DocIdLists : ingest_docs(doc_ids)
    \/ serve_chat
    \/ \E query \in Queries : chat_query(query)

Spec == Init /\ [][Next]_vars

-----------------------------------------------------------------------------
(* Properties of the request-at-a-time server *)

Range(f) == {f[i] : i \in DOMAIN f}

HasStore == user \in DOMAIN VECTOR_STORE

HasCredentials == user \in DOMAIN USER_CREDENTIALS

RECURSIVE ConcatAll(_)
ConcatAll(seqs) == IF seqs = <<>> THEN <<>> ELSE Head(seqs) \o ConcatAll(Tail(seqs))

\* the chunks of the documents of a list, document by document
ChunksOf(doc_ids) ==
    ConcatAll([i \in 1..Len(doc_ids) |-> Split(extract_text(DRIVE[doc_ids[i]]))])

\* some document of the list cannot be fetched
FetchFails(doc_ids) == \E i \in 1..Len(doc_ids) : ~FetchOk(doc_ids[i])

\* C1: an ingest_docs request in which the fetch of some document fails
\* leaves the session's entry of VECTOR_STORE exactly as it was, whatever
\* the position of the failing document.
C1_FailedFetchLeavesStore ==
    [][(request'.op = "ingest_docs" /\ FetchFails(request'.doc_ids))
          => VECTOR_STORE' = VECTOR_STORE]_vars

\* a fetch failed at the second position, after a first document was
\* fetched, with a store in place
C1_Witness ==
    /\ request.op = "ingest_docs"
    /\ FetchFails(request.doc_ids)
    /\ response = Raised("HttpError")
    /\ frame.fetched = 2
    /\ HasStore

\* C2: every chunk text a chat_query returns belongs to the chunks of the
\* most recent completed ingestion; a chunk that only the replaced store
\* held is not returned.
C2_ResultsFromLatestIngestion ==
    (request.op = "chat_query" /\ "results" \in DOMAIN frame) =>
        /\ ingested.done
        /\ \A i \in 1..Len(frame.results) :
              /\ frame.results[i] \in Range(ingested.chunks)
              /\ frame.results[i] \notin ingested.dropped

\* a query answered after a re-ingestion that dropped a chunk of the old store
C2_Witness ==
    /\ request.op = "chat_query"
    /\ "results" \in DOMAIN frame
    /\ ingested.done
    /\ ingested.dropped # {}

\* C3: as long as no ingestion has completed, chat_query answers 400
\* (no store), whatever ingestion attempts failed before.
C3_NoStoreIngested ==
    (request.op = "chat_query" /\ ~ingested.done) =>
        /\ response.status = 400
        /\ response.error = "No documents ingested yet. Use /ingest first."

\* a query after a failed ingestion attempt of an authenticated user
C3_Witness ==
    /\ request.op = "chat_query"
    /\ ~ingested.done
    /\ ingested.failed
    /\ HasCredentials
    /\ response.status = 400

\* C4: without credentials for the session, ingest_docs answers 401, has
\* attempted no fetch, and leaves VECTOR_STORE as it was.
C4_NotAuthenticated ==
    [][(request'.op = "ingest_docs" /\ ~HasCredentials) =>
          /\ response'.status = 401
          /\ frame'.fetched = 0
          /\ VECTOR_STORE' = VECTOR_STORE]_vars

C4_Witness ==
    /\ request.op = "ingest_docs"
    /\ Len(request.doc_ids) = MaxDocs
    /\ ~HasCredentials
    /\ response.status = 401

\* C5: a chat_query against a store of N chunks returns exactly min(3, N)
\* chunk texts, each taken from a different stored position.
C5_ResultCount ==
    (request.op = "chat_query" /\ "I" \in DOMAIN frame) =>
        /\ "results" \in DOMAIN frame
        /\ Len(frame.results) = Min(k, frame.N)
        /\ \A i, j \in 1..Len(frame.I) : i # j => frame.I[i] # frame.I[j]

\* every document of the list can be fetched
AllFetchOk(doc_ids) == \A i \in 1..Len(doc_ids) : FetchOk(doc_ids[i])

\* C6: an authenticated ingest_docs whose fetches all succeed completes
\* without error, also when no document yields any text (or the list is
\* empty), and then reports 0 chunks.
C6_EmptyTextIsNoError ==
    (request.op = "ingest_docs" /\ HasCredentials /\ AllFetchOk(request.doc_ids))
        => /\ response.status = 200
           /\ response.message = Len(ChunksOf(request.doc_ids))

\* C8: every entry of VECTOR_STORE holds as many vectors as texts, the
\* vector at position i is the embedding of texts[i], and texts is the
\* concatenation, in doc_ids order, of each document's chunks.
C8_IndexParallelToTexts ==
    \A u \in DOMAIN VECTOR_STORE :
        LET store == VECTOR_STORE[u] IN
        /\ ntotal(store.index) = Len(store.texts)
        /\ \A i \in 1..Len(store.texts) :
              store.index.vectors[i] = Embed(store.texts[i])
        /\ store.texts = ChunksOf(ingested.doc_ids)

\* a store built from two documents, the first of them with several chunks
C8_Witness ==
    /\ HasStore
    /\ Len(ingested.doc_ids) = 2
    /\ ingested.doc_ids[1] # ingested.doc_ids[2]
    /\ Len(Split(extract_text(DRIVE[ingested.doc_ids[1]]))) > 1
    /\ Len(VECTOR_STORE[user].texts) > 2

\* C9: every position chat_query takes from the search and uses to index
\* the stored texts is a position p with 0 <= p < N.
C9_PositionsValid ==
    (request.op = "chat_query" /\ "I" \in DOMAIN frame) =>
        \A i \in 1..Len(frame.I) : 0 <= frame.I[i] /\ frame.I[i] < frame.N

\* C10: VECTOR_STORE changes only in a step in which ingest_docs completes
\* successfully, and a store that exists is never absent again.
C10_OnlyIngestChangesStore ==
    [][/\ VECTOR_STORE' # VECTOR_STORE =>
             (request'.op = "ingest_docs" /\ response'.status = 200)
       /\ HasStore => user \in DOMAIN VECTOR_STORE']_vars

\* a new login completed while a store exists
C10_Witness ==
    /\ HasStore
    /\ request.op = "oauth2callback"
    /\ response.status = 200

-----------------------------------------------------------------------------
(* The handlers run step by step, as they would on a thread pool: a step   *)
(* is a statement (or a loop iteration) that reads or writes a shared      *)
(* store, and the steps of different workers interleave freely.            *)

Goto(w, label, locals) ==
    /\ pc' = [pc EXCEPT ![w] = label]
    /\ loc' = [loc EXCEPT ![w] = locals]

atomicVars == <<request, response, frame, ingested>>

\* user_key, creds and the 401
ingest_begin(w, doc_ids) ==
    /\ pc[w] = "idle"
    /\ started < MaxRequests
    /\ started' = started + 1
    /\ IF Falsy(get_credentials_for_user(user))
       THEN Goto(w, "return", [op |-> "ingest_docs",
                               response |-> [status |-> 401,
                                             error |-> "not authenticated. visit /login"]])
       ELSE Goto(w, "ingest_fetch", [op |-> "ingest_docs", doc_ids |-> doc_ids,
                                     all_chunks |-> <<>>])
    /\ UNCHANGED <<USER_CREDENTIALS, VECTOR_STORE, atomicVars, completed>>

\* one iteration of the fetch loop, or its exit
ingest_fetch(w) ==
    /\ pc[w] = "ingest_fetch"
    /\ IF loc[w].doc_ids = <<>>
       THEN Goto(w, "ingest_build", [op |-> "ingest_docs",
                                     all_chunks |-> loc[w].all_chunks])
       ELSE IF ~FetchOk(Head(loc[w].doc_ids))
       THEN Goto(w, "return", [op |-> "ingest_docs", response |-> Raised("HttpError")])
       ELSE Goto(w, "ingest_fetch",
                 [op |-> "ingest_docs", doc_ids |-> Tail(loc[w].doc_ids),
                  all_chunks |-> FetchOne(Head(loc[w].doc_ids), loc[w].all_chunks)])
    /\ UNCHANGED <<USER_CREDENTIALS, VECTOR_STORE, atomicVars, started, completed>>

\* split, encode, build the index: all on locals
ingest_build(w) ==
    /\ pc[w] = "ingest_build"
    /\ LET chunks == ChunkLoop(loc[w].all_chunks, <<>>)
           b == BuildIndex(chunks)
       IN IF b.raised
          THEN Goto(w, "return", [op |-> "ingest_docs", response |-> Raised("IndexError")])
          ELSE Goto(w, "ingest_commit", [op |-> "ingest_docs", index |-> b.index,
                                         chunks |-> chunks])
    /\ UNCHANGED <<USER_CREDENTIALS, VECTOR_STORE, atomicVars, started, completed>>

\* VECTOR_STORE[user_key] = {...}: one dictionary assignment
ingest_commit(w) ==
    /\ pc[w] = "ingest_commit"
    /\ VECTOR_STORE' = DictSet(VECTOR_STORE, user, NewStore(loc[w].index, loc[w].chunks))
    /\ completed' = completed \cup {[index |-> loc[w].index, texts |-> loc[w].chunks]}
    /\ Goto(w, "return", [op |-> "ingest_docs",
                          response |-> [status |-> 200, message |-> Len(loc[w].chunks)]])
    /\ UNCHANGED <<USER_CREDENTIALS, atomicVars, started>>

\* store = VECTOR_STORE.get(user_key) and the 400
chat_begin(w, query) ==
    /\ pc[w] = "idle"
    /\ started < MaxRequests
    /\ started' = started + 1
    /\ LET store == LookupStore(user) IN
       IF Falsy(store)
       THEN Goto(w, "return", [op |-> "chat_query",
                               response |-> [status |-> 400,
                                             error |-> "No documents ingested yet. Use /ingest first."]])
       ELSE Goto(w, "chat_read", [op |-> "chat_query", query |-> query, store |-> store])
    /\ UNCHANGED <<USER_CREDENTIALS, VECTOR_STORE, atomicVars, completed>>

\* index = store["index"]; texts = store["texts"]
chat_read(w) ==
    /\ pc[w] = "chat_read"
    /\ Goto(w, "chat_search", [op |-> "chat_query", query |-> loc[w].query,
                               index |-> loc[w].store["index"],
                               texts |-> loc[w].store["texts"]])
    /\ UNCHANGED <<USER_CREDENTIALS, VECTOR_STORE, atomicVars, started, completed>>

\* the query embedding and index.search
chat_search(w) ==
    /\ pc[w] = "chat_search"
    /\ \E I \in Search(loc[w].index, encode(<<loc[w].query>>)[1], k) :
          Goto(w, "chat_map", [op |-> "chat_query", query |-> loc[w].query,
                               index |-> loc[w].index, texts |-> loc[w].texts,
                               I |-> I])
    /\ UNCHANGED <<USER_CREDENTIALS, VECTOR_STORE, atomicVars, started, completed>>

\* results, response_text and the return
chat_map(w) ==
    /\ pc[w] = "chat_map"
    /\ LET texts == loc[w].texts
           I == loc[w].I
       IN Goto(w, "return",
               [op |-> "chat_query", index |-> loc[w].index, texts |-> texts, I |-> I,
                response |->
                   IF \E i \in 1..Len(I) : ~PyIndexValid(texts, I[i])
                   THEN Raised("IndexError")
                   ELSE [status |-> 200, query |-> loc[w].query,
                         response |-> StrJoin(ResultSeparator, MapResults(texts, I))]])
    /\ UNCHANGED <<USER_CREDENTIALS, VECTOR_STORE, atomicVars, started, completed>>

\* the response is sent and the worker is free again
handler_return(w) ==
    /\ pc[w] = "return"
    /\ Goto(w, "idle", <<>>)
    /\ UNCHANGED <<USER_CREDENTIALS, VECTOR_STORE, atomicVars, started, completed>>

NextThreads ==
    \/ oauth2callback
    \/ \E w \in Workers :
          \/ \E doc_ids \in ThreadDocIdLists : ingest_begin(w, doc_ids)
          \/ ingest_fetch(w)
          \/ ingest_build(w)
          \/ ingest_commit(w)
          \/ \E query \in Queries : chat_begin(w, query)
          \/ chat_read(w)
          \/ chat_search(w)
          \/ chat_map(w)
          \/ handler_return(w)

SpecThreads == Init /\ [][NextThreads]_vars

\* the store a query in progress holds, once it has read index and texts
HeldStore(w) == [index |-> loc[w].index, texts |-> loc[w].texts]

SearchingQuery(w) ==
    /\ pc[w] \in {"chat_search", "chat_map", "return"}
    /\ loc[w].op = "chat_query"
    /\ "index" \in DOMAIN loc[w]

\* C7: under every interleaving of the steps of concurrent ingest_docs and
\* chat_query runs, the index a query searches and the texts it indexes
\* are the index and the texts of one completed ingestion, and so is the
\* store a lookup can see; a store still under construction is not.
C7_QuerySeesOneCompletedStore ==
    /\ \A u \in DOMAIN VECTOR_STORE : VECTOR_STORE[u] \in completed
    /\ \A w \in Workers :
          /\ pc[w] = "chat_read" => loc[w].store \in completed
          /\ SearchingQuery(w) => HeldStore(w) \in completed

\* a query maps its search result onto the texts of the store it looked up
\* after another ingestion has replaced that store
C7_Witness ==
    \E w \in Workers :
        /\ pc[w] = "chat_map"
        /\ HeldStore(w) # VECTOR_STORE[user]
        /\ Len(loc[w].texts) # Len(VECTOR_STORE[user].texts)

====
